---------------------------- MODULE Spec2Model ----------------------------
(***************************************************************************)
(* Model of app/outlier_las.py: the CSV loader, the window sampler, the    *)
(* outlier scorer, the per-file processor and the directory orchestrator.  *)
(*                                                                         *)
(* CSV cells are text tokens.  Numbers computed by the program are exact   *)
(* values [kind, num, den]: a rational num/den ("rat"), the non-negative   *)
(* root sqrt(num/den) ("sqrt"), or one of the IEEE specials "inf", "-inf", *)
(* "nan".  Rounding of binary floating point is not modelled.              *)
(***************************************************************************)
EXTENDS Integers, Sequences, FiniteSets, TLC

VARIABLES
    dir,        \* the directory: sequence of files in os.listdir order
    pc,         \* position of process_files_in_directory
    listing,    \* the list os.listdir returned at line 166
    idx,        \* index of the loop of line 166 into listing
    entry,      \* the directory as it was when the invocation began
    result,     \* what the invocation gave its caller
    log,        \* one entry per process_file call, tagged with its invocation
    runs,       \* number of invocations started
    arg,        \* argument of the function under test (function-level specs)
    ret         \* its result

vars == <<dir, pc, listing, idx, entry, result, log, runs, arg, ret>>

orchVars == <<dir, pc, listing, idx, entry, result, log, runs>>

-----------------------------------------------------------------------------
(* Bounds of the model *)

\* longest window of finite prices handed directly to detect_outliers
MaxWin == 6

\* longest window with missing, non-numeric or infinite cells handed to it
MaxOdd == 2

\* largest table length tried on random_data_points
MaxRows == 62

\* invocations of process_files_in_directory in one behaviour
MaxRuns == 2

\* longest file tried on read_csv_with_headers
MaxLines == 3

-----------------------------------------------------------------------------
(* Exact arithmetic *)

Abs(x) == IF x < 0 THEN -x ELSE x

Max(a, b) == IF a >= b THEN a ELSE b

Min(a, b) == IF a <= b THEN a ELSE b

RECURSIVE GCD(_, _)
GCD(a, b) == IF b = 0 THEN a ELSE GCD(b, a % b)

NaN == [kind |-> "nan", num |-> 0, den |-> 0]

PosInf == [kind |-> "inf", num |-> 1, den |-> 0]

NegInf == [kind |-> "-inf", num |-> -1, den |-> 0]

\* a / b in floating point: a finite quotient, or inf / -inf / nan when b = 0
Rat(a, b) ==
    IF b = 0
    THEN IF a > 0 THEN PosInf ELSE IF a < 0 THEN NegInf ELSE NaN
    ELSE LET g == GCD(Abs(a), Abs(b))
             s == IF b < 0 THEN -1 ELSE 1
         IN  [kind |-> "rat", num |-> s * (a \div g), den |-> s * (b \div g)]

\* c * sqrt(a / b) for c > 0, a >= 0, b >= 0, kept as sqrt(c*c*a / b)
ScaledRoot(c, a, b) ==
    IF b = 0
    THEN IF a > 0 THEN PosInf ELSE NaN
    ELSE LET g  == GCD(a, b)
             a1 == a \div g
             b1 == b \div g
             g2 == GCD(c * c, b1)
         IN  [kind |-> "sqrt", num |-> a1 * ((c * c) \div g2), den |-> b1 \div g2]

IsFinite(v) == v.kind \in {"rat", "sqrt"}

-----------------------------------------------------------------------------
(* Cells of a table *)

\* what read_csv leaves for an empty field
Missing == "NaN"

\* what to_datetime(errors='coerce') leaves for text that is no date
NaT == "NaT"

FiniteTokens == {"0", "1", "2", "3", "10"}

NumericTokens == FiniteTokens \cup {"inf", "-inf"}

\* the integer a finite numeric token parses to
IntOf(tok) ==
    CASE tok = "0" -> 0
      [] tok = "1" -> 1
      [] tok = "2" -> 2
      [] tok = "3" -> 3
      [] tok = "10" -> 10

IsNull(row) ==
    \/ row.Name = Missing
    \/ row.Timestamp \in {Missing, NaT}
    \/ row.Price = Missing

\* xs[1] + ... + xs[k]
RECURSIVE SumTo(_, _)
SumTo(xs, k) == IF k = 0 THEN 0 ELSE xs[k] + SumTo(xs, k - 1)

SumSeq(xs) == SumTo(xs, Len(xs))

-----------------------------------------------------------------------------
(* detect_outliers *)

HasTok(data, tok) == \E i \in 1..Len(data) : data[i].Price = tok

AllFinite(data) == \A i \in 1..Len(data) : data[i].Price \in FiniteTokens

\* sum of the prices of a window of finite prices
PriceSum(data) == SumSeq([i \in 1..Len(data) |-> IntOf(data[i].Price)])

\* n*n times the sum of squared deviations from the mean (two passes, as
\* Series.std computes it): the sum over the rows of (n*x - S)^2, S the sum
SumSqDevN2(data, S) ==
    SumSeq([i \in 1..Len(data) |->
               (Len(data) * IntOf(data[i].Price) - S) * (Len(data) * IntOf(data[i].Price) - S)])

\* data["Price"].mean()
Mean(data) ==
    IF Len(data) = 0 THEN NaN
    ELSE IF HasTok(data, "inf") /\ HasTok(data, "-inf") THEN NaN
    ELSE IF HasTok(data, "inf") THEN PosInf
    ELSE IF HasTok(data, "-inf") THEN NegInf
    ELSE Rat(PriceSum(data), Len(data))

\* data["Price"].std(): sample standard deviation, divisor n - 1
StdDev(data) ==
    IF Len(data) <= 1 THEN NaN
    ELSE IF ~AllFinite(data) THEN NaN
    ELSE ScaledRoot(1, SumSqDevN2(data, PriceSum(data)),
                    Len(data) * Len(data) * (Len(data) - 1))

\* IsInf taking nan for infinite as well
IsInfOrNan(v) == v.kind \in {"inf", "-inf", "nan"}

\* np.isinf
IsInf(v) == v.kind \in {"inf", "-inf"}

\* the moments of a window whose mean and standard deviation are finite:
\* n rows, S the sum of the prices, ssd = SumSqDevN2
Moments(data) ==
    [n |-> Len(data), S |-> PriceSum(data), ssd |-> SumSqDevN2(data, PriceSum(data))]

\* AboveThreshold with the test made two-sided
AboveThresholdTwoSided(m, p) ==
    (m.n * p - m.S) * (m.n * p - m.S) * (m.n - 1) > 4 * m.ssd

\* data['Price-Mean'] > threshold for a row of price p, threshold = 2 * std_dev:
\* p - S/n > 2 * sqrt(ssd / (n*n*(n-1)))
AboveThreshold(m, p) ==
    /\ m.n * p - m.S > 0
    /\ (m.n * p - m.S) * (m.n * p - m.S) * (m.n - 1) > 4 * m.ssd

\* the row of `outliers` made from row i of the window (lines 105-111)
OutlierRow(data, m, i) ==
    [Name |-> data[i].Name,
     Timestamp |-> data[i].Timestamp,
     Price |-> data[i].Price,
     pos |-> i,
     PriceMean |-> Rat(m.n * IntOf(data[i].Price) - m.S, m.n),
     Mean |-> Rat(m.S, m.n),
     \* (Price-Mean / threshold) * 100
     PctDev |-> ScaledRoot(50 * Abs(m.n * IntOf(data[i].Price) - m.S), m.n - 1, m.ssd)]

RECURSIVE SelectRows(_, _, _, _)
SelectRows(data, m, i, acc) ==
    IF i > Len(data) THEN acc
    ELSE SelectRows(data, m, i + 1,
                    IF AboveThreshold(m, IntOf(data[i].Price))
                    THEN Append(acc, OutlierRow(data, m, i)) ELSE acc)

\* line 107: the rows above the threshold; a comparison with nan is False
Outliers(data) ==
    IF IsFinite(Mean(data)) /\ IsFinite(StdDev(data))
    THEN SelectRows(data, Moments(data), 1, <<>>)
    ELSE <<>>

Failure(kind) == [status |-> "error", kind |-> kind, outliers |-> <<>>]

detect_outliers(data) ==
    IF \E i \in 1..Len(data) : IsNull(data[i])
    THEN Failure("MissingValues")
    ELSE IF \E i \in 1..Len(data) : data[i].Price \notin NumericTokens
    THEN Failure("NonNumericPrice")
    ELSE IF IsInf(Mean(data)) \/ IsInf(StdDev(data))
    THEN Failure("DegenerateStatistics")
    ELSE [status |-> "ok", kind |-> "", outliers |-> Outliers(data)]

-----------------------------------------------------------------------------
(* read_csv_with_headers *)

\* A file is [name, lines, report]: lines is its text, one tuple of fields
\* per line; report is the table to_csv was given when the program wrote
\* the file (<<>> for a file the program did not write), whose numbers stand
\* in lines as the token NumText.

CanonicalHeader == <<"Name", "Timestamp", "Price">>

NumText == "<number>"

\* an empty field is read as a missing value
ParseCell(text) == IF text = "" THEN Missing ELSE text

\* names=["Name", "Timestamp", "Price"] on a line of w >= 3 fields: the
\* names go to the last three fields, the leading w - 3 become the index
NamedRow(line) ==
    LET w == Len(line)
    IN  [Name |-> ParseCell(line[w - 2]),
         Timestamp |-> ParseCell(line[w - 1]),
         Price |-> ParseCell(line[w])]

LoadFailure == [status |-> "error", kind |-> "ReadFailure", rows |-> <<>>]

\* read_csv_with_headers without the header test: every line is data
read_csv_without_detection(file) ==
    IF Len(file.lines) = 0
    THEN LoadFailure
    ELSE [status |-> "ok", kind |-> "",
          rows |-> [i \in 1..Len(file.lines) |-> NamedRow(file.lines[i])]]

read_csv_with_headers(file) ==
    IF Len(file.lines) = 0
    THEN LoadFailure                          \* read_csv: no columns to parse
    ELSE LET body == IF file.lines[1] = CanonicalHeader
                     THEN Tail(file.lines)    \* line 20: first line is the header
                     ELSE file.lines          \* line 23: every line is data
         IN  [status |-> "ok", kind |-> "",
              rows |-> [i \in 1..Len(body) |-> NamedRow(body[i])]]

-----------------------------------------------------------------------------
(* random_data_points *)

\* sample size when the caller gives none (line 32)
DefaultNumPoints == 30

\* rows at the end of the table that line 53 removes from the candidates
TailReserved == 29

DateTokens == {"t"}

\* to_datetime(errors='coerce') of one cell; numAsDate says whether the text
\* of a number is taken for a date
ToDatetime(cell, numAsDate) ==
    IF cell \in DateTokens THEN cell
    ELSE IF cell = NumText /\ numAsDate THEN cell
    ELSE NaT

CoerceTimestamps(rows, numAsDate) ==
    [i \in 1..Len(rows) |-> [rows[i] EXCEPT !.Timestamp = ToDatetime(@, numAsDate)]]

\* Candidates reserving one row fewer at the end
CandidatesOffByOne(len) == {i \in 0..(len - 1) : i <= len - TailReserved}

\* df.index.difference(df.index[-29:]), as 0-based positions
Candidates(len) == {i \in 0..(len - 1) : i < len - TailReserved}

\* line 59
ClampStart(chosen, numPoints) == Max(0, chosen - numPoints + 1)

\* df.iloc[start:start + numPoints], start 0-based
Slice(rows, start, numPoints) ==
    SubSeq(rows, start + 1, Min(start + numPoints, Len(rows)))

SampleFailure(kind) ==
    [status |-> "error", kind |-> kind, rows |-> <<>>, chosen |-> -1, start |-> -1]

\* lines 59-68 once line 56 has drawn `chosen`
WindowFrom(rows, chosen, numPoints) ==
    LET start == ClampStart(chosen, numPoints)
        selected == Slice(rows, start, numPoints)
    IN  IF Len(selected) < numPoints
        THEN SampleFailure("InsufficientData")
        ELSE [status |-> "ok", kind |-> "", rows |-> selected,
              chosen |-> chosen, start |-> start]

\* What line 56 can give on a candidate set: one drawn candidate, or an
\* exception.  pandas defines sample on Series and DataFrame, not on Index:
\* where the attribute is missing the call raises on every table, and where
\* it draws it raises on an empty candidate set.
DrawOutcomes(rows, numPoints) ==
    {SampleFailure("SampleFailed")}
        \cup {WindowFrom(rows, c, numPoints) : c \in Candidates(Len(rows))}

\* every result random_data_points can give for a file and a sample size
SamplerOutcomes(file, numPoints) ==
    LET df == read_csv_with_headers(file)
    IN  IF df.status = "error"
        THEN {SampleFailure("ReadFailure")}
        ELSE UNION {
               LET rows == CoerceTimestamps(df.rows, numAsDate)
               IN  IF \A i \in 1..Len(rows) : rows[i].Timestamp = NaT
                   THEN {SampleFailure("InvalidTimestamps")}
                   ELSE DrawOutcomes(rows, numPoints)
               : numAsDate \in BOOLEAN }

-----------------------------------------------------------------------------
(* process_file *)

\* x - y and (x / y) * 100 on finite rationals, as floating point divides
RatSub(x, y) == Rat(x.num * y.den - y.num * x.den, x.den * y.den)

RatPercent(x, y) == Rat(100 * x.num * y.den, x.den * y.num)

\* a path is [stem, ext]: the text before its last four characters, cut in
\* pieces, and those last four characters
EndsWithCsv(path) == path.ext = ".csv"

\* OutPath writing beside the .csv files under another extension
OutPathOtherExt(path) == [stem |-> Append(path.stem, "_outliers"), ext |-> ".out"]

\* f"{file_path[:-4]}_outliers.csv"
OutPath(path) == [stem |-> Append(path.stem, "_outliers"), ext |-> ".csv"]

ReportColumns ==
    <<"Name", "Timestamp", "Actual Price", "Mean of 30 Selected Datapoints",
      "Price-Mean", "% Deviation">>

\* ShouldWrite without the emptiness test
ShouldWriteAlways(outliers) == TRUE

\* line 136
ShouldWrite(outliers) == outliers # <<>>

\* ReportPctDev keeping the scorer's '% Deviation', relative to the threshold
ReportPctDevKept(scoredRow, priceMean, mean) == scoredRow.PctDev

\* line 142: the '% Deviation' that is written, from the row's recomputed
\* 'Price-Mean' and mean
ReportPctDev(scoredRow, priceMean, mean) == RatPercent(priceMean, mean)

\* lines 137-142 for one row of `outliers`
ReportRow(scoredRow, sampled) ==
    LET actual    == Rat(IntOf(scoredRow.Price), 1)
        mean      == Mean(sampled)
        priceMean == RatSub(actual, mean)
    IN  [Name |-> scoredRow.Name,
         Timestamp |-> scoredRow.Timestamp,
         ActualPrice |-> actual,
         Mean |-> mean,
         PriceMean |-> priceMean,
         PctDev |-> ReportPctDev(scoredRow, priceMean, mean)]

\* the text to_csv(index=False, columns=...) writes for a report
ReportLines(report) ==
    <<ReportColumns>> \o
        [k \in 1..Len(report) |->
            <<report[k].Name, report[k].Timestamp, NumText, NumText, NumText, NumText>>]

\* what one call left behind: status is "outliers" (line 144), "none"
\* (line 146) or "error" (line 149); written holds the file written, if any;
\* window, scored and report are the call's sampled_data, the scorer's
\* result and the table given to to_csv
CallRecord(path, status, kind, window, scored, written) ==
    [path |-> path, status |-> status, kind |-> kind, window |-> window,
     scored |-> scored, written |-> written]

Caught(path, kind) == CallRecord(path, "error", kind, <<>>, <<>>, <<>>)

\* lines 134-146 once the window is sampled
AfterSampling(path, window) ==
    LET res == detect_outliers(window)
    IN  IF res.status = "error" THEN Caught(path, res.kind)
        ELSE IF ShouldWrite(res.outliers)
        THEN LET report == [k \in 1..Len(res.outliers) |-> ReportRow(res.outliers[k], window)]
             IN  CallRecord(path, "outliers", "", window, res.outliers,
                            <<[name |-> OutPath(path), lines |-> ReportLines(report),
                               report |-> report]>>)
        ELSE CallRecord(path, "none", "", window, res.outliers, <<>>)

\* every way a call process_file(path) on `file` can end
ProcessOutcomes(file) ==
    LET df == read_csv_with_headers(file)
    IN  IF df.status = "error" THEN {Caught(file.name, df.kind)}
        ELSE IF Len(df.rows) = 0 THEN {Caught(file.name, "EmptyFile")}
        ELSE {IF s.status = "error" THEN Caught(file.name, s.kind)
                                    ELSE AfterSampling(file.name, s.rows)
              : s \in SamplerOutcomes(file, DefaultNumPoints)}

\* Propagates with the handler of line 148 missing
PropagatesErrors(call) == call.status = "error"

\* line 148 catches every exception
Propagates(call) == FALSE

-----------------------------------------------------------------------------
(* process_files_in_directory *)

Names(files) == [i \in 1..Len(files) |-> files[i].name]

CsvCount(files) == Cardinality({i \in 1..Len(files) : EndsWithCsv(files[i].name)})

\* ValidCount letting an empty directory through
ValidCountUpToTwo(count) == count <= 2

\* line 163
ValidCount(count) == count \in {1, 2}

FileAt(files, path) == files[CHOOSE i \in 1..Len(files) : files[i].name = path]

\* files with `file` put in before position k (after the last for k = Len + 1)
InsertAt(files, k, file) ==
    SubSeq(files, 1, k - 1) \o <<file>> \o SubSeq(files, k, Len(files))

\* the directories to_csv can leave when it writes `file`: the file replaced
\* where its path exists, else a new entry, which os.listdir may list at any
\* position
WriteOutcomes(files, file) ==
    IF \E i \in 1..Len(files) : files[i].name = file.name
    THEN {[i \in 1..Len(files) |-> IF files[i].name = file.name THEN file ELSE files[i]]}
    ELSE {InsertAt(files, k, file) : k \in 1..(Len(files) + 1)}

TaggedAs(call, r) ==
    [run |-> r, path |-> call.path, status |-> call.status, kind |-> call.kind,
     window |-> call.window, scored |-> call.scored, written |-> call.written]

Tagged(call) == TaggedAs(call, runs)

\* lines 158-164, and line 166's listing when the count is valid
Invoke ==
    /\ pc \in {"idle", "returned"}
    /\ runs < MaxRuns
    /\ runs' = runs + 1
    /\ entry' = dir
    /\ idx' = 1
    /\ IF ~dir.exists
       THEN pc' = "returned" /\ result' = "DirectoryNotFound" /\ listing' = <<>>
       ELSE IF ~ValidCount(CsvCount(dir.files))
       THEN pc' = "returned" /\ result' = "InvalidFileCount" /\ listing' = <<>>
       ELSE pc' = "loop" /\ result' = "none" /\ listing' = Names(dir.files)
    /\ UNCHANGED <<dir, log, arg, ret>>

\* lines 166-171 on a name that ends in .csv
StepCsv ==
    /\ pc = "loop"
    /\ idx <= Len(listing)
    /\ EndsWithCsv(listing[idx])
    /\ \E call \in ProcessOutcomes(FileAt(dir.files, listing[idx])) :
          /\ log' = Append(log, Tagged(call))
          /\ IF call.written = <<>>
             THEN dir' = dir
             ELSE \E files \in WriteOutcomes(dir.files, call.written[1]) :
                      dir' = [dir EXCEPT !.files = files]
          /\ IF Propagates(call)
             THEN pc' = "returned" /\ result' = "Error" /\ idx' = idx
             ELSE pc' = pc /\ result' = result /\ idx' = idx + 1
    /\ UNCHANGED <<listing, entry, runs, arg, ret>>

\* lines 166-170 on any other name
StepOther ==
    /\ pc = "loop"
    /\ idx <= Len(listing)
    /\ ~EndsWithCsv(listing[idx])
    /\ idx' = idx + 1
    /\ UNCHANGED <<dir, pc, listing, entry, result, log, runs, arg, ret>>

\* the loop is over: the call returns without an exception
Return ==
    /\ pc = "loop"
    /\ idx > Len(listing)
    /\ pc' = "returned"
    /\ result' = "success"
    /\ UNCHANGED <<dir, listing, idx, entry, log, runs, arg, ret>>

-----------------------------------------------------------------------------
(* Function-level specification: detect_outliers on small windows *)

Row(name, ts, price) == [Name |-> name, Timestamp |-> ts, Price |-> price]

SeqsUpTo(S, n) == UNION {[1..k -> S] : k \in 0..n}

PlainRows == {Row("A", "t", p) : p \in {"0", "1", "10"}}

OddRows ==
    {Row("A", "t", p) : p \in {"1", "10", "inf", "-inf", "abc", Missing}}
        \cup {Row(Missing, "t", "1"), Row("A", NaT, "1")}

ScorerWindows == SeqsUpTo(PlainRows, MaxWin) \cup SeqsUpTo(OddRows, MaxOdd)

Pending == [status |-> "pending", kind |-> "", outliers |-> <<>>]

NoDirectory == [exists |-> FALSE, files |-> <<>>]

OrchIdle ==
    /\ dir = NoDirectory
    /\ pc = "idle"
    /\ listing = <<>>
    /\ idx = 0
    /\ entry = NoDirectory
    /\ result = "none"
    /\ log = <<>>
    /\ runs = 0

InitScorer ==
    /\ OrchIdle
    /\ arg \in ScorerWindows
    /\ ret = Pending

Score ==
    /\ ret.status = "pending"
    /\ ret' = detect_outliers(arg)
    /\ UNCHANGED <<orchVars, arg>>

NextScorer == Score

SpecScorer == InitScorer /\ [][NextScorer]_vars

-----------------------------------------------------------------------------
(* Claims about detect_outliers *)

\* The threshold test of the claims, from the one-pass moments: with
\* n rows, S = sum x, Q = sum x*x, mean = S/n and std^2 = (nQ - S*S)/(n(n-1)),
\* p > mean + 2*std  iff  n*p - S > 0 and (n*p - S)^2 * (n-1) > 4*n*(n*Q - S*S)
SumOfSquares(data) == SumSeq([i \in 1..Len(data) |-> IntOf(data[i].Price) * IntOf(data[i].Price)])

StrictlyAbove(data, i) ==
    LET n == Len(data)
        S == PriceSum(data)
        Q == SumOfSquares(data)
        p == IntOf(data[i].Price)
    IN  /\ n >= 2
        /\ n * p - S > 0
        /\ (n * p - S) * (n * p - S) * (n - 1) > 4 * n * (n * Q - S * S)

FlaggedPositions(r) == {r.outliers[k].pos : k \in 1..Len(r.outliers)}

InWindowOrder(r) ==
    \A j, k \in 1..Len(r.outliers) : j < k => r.outliers[j].pos < r.outliers[k].pos

\* C2: on a window that passes validation (finite prices), detect_outliers
\* returns exactly the rows whose Price is strictly greater than
\* mean + 2*std_dev, in window order; rows at or below it are never flagged.
C2_FlagsExactlyAboveThreshold ==
    /\ (ret.status = "ok" /\ AllFinite(arg)) =>
          /\ FlaggedPositions(ret) = {i \in 1..Len(arg) : StrictlyAbove(arg, i)}
          /\ InWindowOrder(ret)
          /\ \A k \in 1..Len(ret.outliers) :
                ret.outliers[k].Price = arg[ret.outliers[k].pos].Price
    /\ (ret.status = "ok" /\ ~AllFinite(arg)) => ret.outliers = <<>>

\* a window with a flagged row and a row far below the mean that is not
C2_Witness ==
    /\ ret.status = "ok"
    /\ Len(ret.outliers) = 1
    /\ \E i \in 1..Len(arg) : arg[i].Price = "0" /\ i \notin FlaggedPositions(ret)
    /\ \E i \in 1..Len(arg) : arg[i].Price = "10" /\ i \in FlaggedPositions(ret)

\* the window has no missing cell and every price is a number
PassesValidation(data) ==
    /\ \A i \in 1..Len(data) : ~IsNull(data[i])
    /\ \A i \in 1..Len(data) : data[i].Price \in NumericTokens

\* the statistics of the window are undefined (nan) though no price is
\* missing: fewer than two rows, or infinite prices of both signs, or (for
\* the standard deviation) any infinite price
UndefinedStatistics(data) ==
    \/ Len(data) <= 1
    \/ HasTok(data, "inf")
    \/ HasTok(data, "-inf")

\* C8 as stated: detect_outliers fails with DegenerateStatistics whenever the
\* mean or the standard deviation of a validated window is infinite or
\* undefined, a single-row window included.
C8_FailsWhenUndefined ==
    (ret.status # "pending" /\ PassesValidation(arg) /\ UndefinedStatistics(arg)) =>
        (ret.status = "error" /\ ret.kind = "DegenerateStatistics")

\* C8 amended: detect_outliers fails with DegenerateStatistics exactly when
\* the mean of the validated window is infinite (infinite prices of one sign
\* only); when mean or standard deviation is merely undefined (fewer than
\* two rows, infinite prices of both signs) it does not fail and returns an
\* empty outlier set.
C8_FailsOnlyWhenInfinite ==
    (ret.status # "pending" /\ PassesValidation(arg)) =>
        /\ (ret.status = "error" /\ ret.kind = "DegenerateStatistics")
              <=> (HasTok(arg, "inf") # HasTok(arg, "-inf"))
        /\ (UndefinedStatistics(arg) /\ HasTok(arg, "inf") = HasTok(arg, "-inf"))
              => (ret.status = "ok" /\ ret.outliers = <<>>)

\* a single-row window of a finite price has been scored
C8_Witness ==
    /\ Len(arg) = 1
    /\ AllFinite(arg) /\ ~IsNull(arg[1])
    /\ ret.status = "ok"
    /\ ret.outliers = <<>>

-----------------------------------------------------------------------------
(* Function-level specification: random_data_points on tables of 0..MaxRows rows *)

\* a headerless file of len rows named "1", "2", ... with timestamp text ts
\* on every row but the first, whose timestamp is first
TableFile(len, first, ts) ==
    [name |-> [stem |-> <<"in">>, ext |-> ".csv"],
     lines |-> [i \in 1..len |-> <<ToString(i), IF i = 1 THEN first ELSE ts, "1">>],
     report |-> <<>>]

WithHeader(file) == [file EXCEPT !.lines = <<CanonicalHeader>> \o @]

SampleSizes == {5, DefaultNumPoints, 40}

SamplerFiles ==
    LET plain == {TableFile(len, tf[1], tf[2]) :
                    len \in 0..MaxRows, tf \in {<<"t", "t">>, <<"bad", "t">>, <<"bad", "bad">>}}
    IN  plain \cup {WithHeader(f) : f \in {g \in plain : Len(g.lines) \in {0, 29, 30, 31}}}

SamplePending == [status |-> "pending", kind |-> "", rows |-> <<>>, chosen |-> -1, start |-> -1]

InitSampler ==
    /\ OrchIdle
    /\ arg \in [file : SamplerFiles, numPoints : SampleSizes]
    /\ ret = SamplePending

Sample ==
    /\ ret.status = "pending"
    /\ ret' \in SamplerOutcomes(arg.file, arg.numPoints)
    /\ UNCHANGED <<orchVars, arg>>

NextSampler == Sample

SpecSampler == InitSampler /\ [][NextSampler]_vars

-----------------------------------------------------------------------------
(* Claims about random_data_points *)

NamesOf(rows) == [i \in 1..Len(rows) |-> rows[i].Name]

LoadedRows(file) == read_csv_with_headers(file).rows

SomeValidTimestamp(file) ==
    \E i \in 1..Len(LoadedRows(file)) : LoadedRows(file)[i].Timestamp \in DateTokens

\* C1 as stated: on a table whose timestamps are not all invalid the sampler
\* returns exactly N consecutive rows when the table has at least N rows, and
\* fails with InsufficientData when it has fewer.
C1_SamplerContract ==
    LET len == Len(LoadedRows(arg.file))
        n   == arg.numPoints
    IN  (ret.status # "pending" /\ SomeValidTimestamp(arg.file)) =>
            IF len >= n
            THEN /\ ret.status = "ok"
                 /\ Len(ret.rows) = n
                 /\ \E s \in 0..(len - n) :
                        NamesOf(ret.rows) = NamesOf(SubSeq(LoadedRows(arg.file), s + 1, s + n))
            ELSE ret.status = "error" /\ ret.kind = "InsufficientData"

\* C9: with N = 30 on a table of L >= N rows, the realised start
\* s = max(0, c - N + 1) satisfies 0 <= s <= max(0, L - 2N + 1) and
\* s + N <= L; the window is rows s .. s+N-1 of the table, it is the first N
\* rows when L <= 2N - 1, and when L >= 2N - 1 it holds none of the last
\* N - 1 rows.
C9_RealisedWindow ==
    LET table == LoadedRows(arg.file)
        len   == Len(table)
        n     == arg.numPoints
        s     == ret.start
    IN  (ret.status = "ok" /\ n = DefaultNumPoints) =>
            /\ len >= n
            /\ s = Max(0, ret.chosen - n + 1)
            /\ 0 <= s /\ s <= Max(0, len - 2 * n + 1)
            /\ s + n <= len
            /\ NamesOf(ret.rows) = NamesOf(SubSeq(table, s + 1, s + n))
            /\ (len <= 2 * n - 1 => s = 0)
            /\ (len >= 2 * n - 1 =>
                   \A i \in 1..Len(ret.rows) : \A j \in (len - n + 2)..len :
                       ret.rows[i].Name # table[j].Name)

\* a window that does not start at row 0 has been drawn from a long table
C9_Witness ==
    /\ ret.status = "ok"
    /\ arg.numPoints = DefaultNumPoints
    /\ ret.start > 0
    /\ ret.chosen = Len(LoadedRows(arg.file)) - DefaultNumPoints

-----------------------------------------------------------------------------
(* The program: invocations of process_files_in_directory on a directory *)

\* len data lines "i,t,1", the price 10 on the lines in spikes, the field
\* texts of odd (a position -> fields function) in place of those lines
DataLines(len, spikes, odd) ==
    [i \in 1..len |->
        IF i \in DOMAIN odd THEN odd[i]
        ELSE <<ToString(i), "t", IF i \in spikes THEN "10" ELSE "1">>]

None == [i \in {} |-> <<>>]

FileBodies ==
    { DataLines(30, {7}, None),                       \* one high price in 30 rows
      <<CanonicalHeader>> \o DataLines(30, {3, 20}, None),
      DataLines(61, {2}, None),                       \* in the window or not, by the draw
      DataLines(30, {}, None),                        \* no variance
      DataLines(10, {4}, None),                       \* fewer than 30 rows
      <<>>,                                           \* empty file
      <<CanonicalHeader>>,                            \* header and no row
      [i \in 1..30 |-> <<ToString(i), "bad", "1">>],  \* no valid timestamp
      DataLines(30, {7}, 5 :> <<"", "t", "1">>),      \* a missing name
      DataLines(30, {7}, 5 :> <<"5", "t", "abc">>),   \* a price that is no number
      DataLines(30, {7}, 5 :> <<"5", "t", "inf">>) }  \* an infinite price

\* the bodies tried for the second file
SecondBodies ==
    { DataLines(30, {7}, None),
      DataLines(61, {2}, None),
      DataLines(10, {4}, None),
      [i \in 1..30 |-> <<ToString(i), "bad", "1">>] }

PathA == [stem |-> <<"a">>, ext |-> ".csv"]

PathB == [stem |-> <<"b">>, ext |-> ".csv"]

PathC == [stem |-> <<"c">>, ext |-> ".csv"]

PathNotes == [stem |-> <<"notes">>, ext |-> ".txt"]

InputFile(path, lines) == [name |-> path, lines |-> lines, report |-> <<>>]

\* zero or one file of each path, in a fixed listing order
InitialDirs ==
    { [exists |-> TRUE, files |-> a \o n \o b \o c] :
        a \in {<<>>} \cup {<<InputFile(PathA, l)>> : l \in FileBodies},
        b \in {<<>>} \cup {<<InputFile(PathB, l)>> : l \in SecondBodies},
        c \in {<<>>, <<InputFile(PathC, DataLines(30, {7}, None))>>},
        n \in {<<>>, <<InputFile(PathNotes, <<<<"x">>>>)>>} }
      \cup {NoDirectory}

NoArg == <<>>

Init ==
    /\ dir \in InitialDirs
    /\ pc = "idle"
    /\ listing = <<>>
    /\ idx = 0
    /\ entry = NoDirectory
    /\ result = "none"
    /\ log = <<>>
    /\ runs = 0
    /\ arg = NoArg
    /\ ret = NoArg

Next == Invoke \/ StepCsv \/ StepOther \/ Return

Spec == Init /\ [][Next]_vars

-----------------------------------------------------------------------------
(* Claims about process_files_in_directory and process_file *)

\* the calls of process_file made by invocation r, in order
CallsOf(r) == SelectSeq(log, LAMBDA call : call.run = r)

Invoked(r) == [k \in 1..Len(CallsOf(r)) |-> CallsOf(r)[k].path]

EligiblePaths(files) == SelectSeq(Names(files), EndsWithCsv)

\* C3: with 0, 3 or more .csv files in the directory the call fails with
\* InvalidFileCount, process_file has been called on no file and nothing has
\* been written.
C3_InvalidCountFailsFirst ==
    (pc = "returned" /\ entry.exists /\ CsvCount(entry.files) \notin {1, 2}) =>
        /\ result = "InvalidFileCount"
        /\ Invoked(runs) = <<>>
        /\ dir = entry

\* an invocation has failed on three .csv files, one of them a report
C3_Witness ==
    /\ pc = "returned"
    /\ result = "InvalidFileCount"
    /\ CsvCount(entry.files) = 3
    /\ \E i \in 1..Len(entry.files) : entry.files[i].report # <<>>

\* C4: with 1 or 2 .csv files the call invokes process_file on every one of
\* them, in listing order, and returns success, whatever error a file
\* raises; failed calls leave the directory, and so the files after them, as
\* they were.
C4_EveryEligibleFileProcessed ==
    /\ (pc = "returned" /\ entry.exists /\ CsvCount(entry.files) \in {1, 2}) =>
          /\ result = "success"
          /\ Invoked(runs) = EligiblePaths(entry.files)
    /\ (pc = "loop") =>
          /\ result = "none"
          /\ Invoked(runs) = SelectSeq(SubSeq(listing, 1, idx - 1), EndsWithCsv)
    /\ (runs > 0 /\ \A k \in 1..Len(log) : log[k].run = runs => log[k].status = "error") =>
          dir = entry

\* the first file failed and the second file's report was written
C4_Witness ==
    /\ pc = "returned"
    /\ result = "success"
    /\ Len(CallsOf(runs)) = 2
    /\ CallsOf(runs)[1].status = "error"
    /\ CallsOf(runs)[1].kind = "NonNumericPrice"
    /\ CallsOf(runs)[2].status = "outliers"
    /\ \E i \in 1..Len(dir.files) : dir.files[i].name = OutPath(CallsOf(runs)[2].path)

\* C5: process_file writes <name>_outliers.csv only when the scorer returned
\* a non-empty outlier set; a call that finds no outlier, or that fails,
\* leaves the directory as it was.
C5_WritesOnlyOutliers ==
    [][ /\ (dir' # dir) =>
              /\ Len(log') = Len(log) + 1
              /\ log'[Len(log')].status = "outliers"
              /\ log'[Len(log')].scored # <<>>
        /\ (Len(log') = Len(log) + 1 /\ (log'[Len(log')].status # "outliers"
                                          \/ log'[Len(log')].scored = <<>>)) =>
              dir' = dir
        /\ (Len(log') = Len(log) + 1 /\ log'[Len(log')].status = "outliers") =>
              /\ dir'.files \in WriteOutcomes(dir.files, log'[Len(log')].written[1])
              /\ log'[Len(log')].written[1].name = OutPath(log'[Len(log')].path)
      ]_vars

\* a call found no outlier in a window it scored, another call failed, and
\* the directory is as it was
C5_Witness ==
    /\ dir = entry
    /\ Len(CallsOf(runs)) = 2
    /\ CallsOf(runs)[1].status = "none"
    /\ CallsOf(runs)[1].window # <<>>
    /\ CallsOf(runs)[2].status = "error"

\* the mean of Price over a window of finite prices, from the claim
WindowMean(window) ==
    Rat(SumSeq([i \in 1..Len(window) |-> IntOf(window[i].Price)]), Len(window))

\* C6: every written report row has 'Mean of 30 Selected Datapoints' = the
\* mean of Price over the sampled window, 'Price-Mean' = Actual Price - that
\* mean, and '% Deviation' = (Price-Mean / mean) * 100, relative to the mean;
\* the rows are the scorer's outlier rows, in order.
C6_ReportRelativeToMean ==
    \A c \in 1..Len(log) :
        log[c].status = "outliers" =>
            LET report == log[c].written[1].report
                mean   == WindowMean(log[c].window)
            IN  /\ Len(report) = Len(log[c].scored)
                /\ \A k \in 1..Len(report) :
                      LET price == IntOf(log[c].window[log[c].scored[k].pos].Price)
                      IN  /\ report[k].ActualPrice = Rat(price, 1)
                          /\ report[k].Mean = mean
                          /\ report[k].Mean = log[c].scored[k].Mean
                          /\ report[k].PriceMean = RatSub(Rat(price, 1), mean)
                          /\ report[k].PctDev = RatPercent(report[k].PriceMean, mean)
                          /\ report[k].Name = log[c].window[log[c].scored[k].pos].Name

\* the window of 29 prices 1 and one price 10 was reported: mean 13/10,
\* Price-Mean 87/10, % Deviation 8700/13
C6_Witness ==
    \E c \in 1..Len(log) :
        /\ log[c].status = "outliers"
        /\ Len(log[c].written[1].report) = 1
        /\ log[c].written[1].report[1].Mean = Rat(13, 10)
        /\ log[c].written[1].report[1].PriceMean = Rat(87, 10)
        /\ log[c].written[1].report[1].PctDev = Rat(8700, 13)

\* every file the program wrote is a .csv file named <input>_outliers
WrittenFilesEligible ==
    \A i \in 1..Len(dir.files) :
        dir.files[i].report # <<>> =>
            /\ EndsWithCsv(dir.files[i].name)
            /\ dir.files[i].name.stem[Len(dir.files[i].name.stem)] = "_outliers"

\* an invocation that passed the count check processed every written file
\* that was in the directory when it began
WrittenFilesProcessedLater ==
    (pc = "returned" /\ result = "success") =>
        \A i \in 1..Len(entry.files) :
            entry.files[i].report # <<>> =>
                \E k \in 1..Len(Invoked(runs)) : Invoked(runs)[k] = entry.files[i].name

\* after an invocation whose two files both yielded outliers, the next
\* invocation fails with InvalidFileCount and processes nothing
TwoReportsBlockNextRun ==
    \A r \in 1..(runs - 1) :
        (Len(CallsOf(r)) = 2 /\ \A k \in 1..2 : CallsOf(r)[k].status = "outliers") =>
            (r + 1 <= runs /\ CallsOf(r + 1) = <<>>
                /\ (r + 1 = runs => pc = "returned" /\ result = "InvalidFileCount"))

\* no call of an invocation is on a path an earlier call of it wrote
NeverProcessesOwnOutput ==
    \A r \in 1..runs : \A j, k \in 1..Len(CallsOf(r)) :
        (j < k /\ CallsOf(r)[j].written # <<>>) =>
            CallsOf(r)[j].written[1].name # CallsOf(r)[k].path

TwoReportsReached ==
    /\ runs = 2
    /\ pc = "returned"
    /\ result = "InvalidFileCount"
    /\ Len(CallsOf(1)) = 2
    /\ \A k \in 1..2 : CallsOf(1)[k].status = "outliers"
    /\ CsvCount(dir.files) = 4

-----------------------------------------------------------------------------
(* Function-level specification: read_csv_with_headers with and without the
   header line, on 0..MaxLines data lines *)

LoaderLines ==
    { <<"A", "t", "1">>, <<"B", "bad", "abc">>, <<"", "t", "10">>,
      <<"Name", "Price", "Timestamp">>, CanonicalHeader }

LoadPending == [status |-> "pending", headed |-> LoadFailure, bare |-> LoadFailure]

InitLoader ==
    /\ OrchIdle
    /\ arg \in SeqsUpTo(LoaderLines, MaxLines)
    /\ ret = LoadPending

\* loads the file made of the header line and the lines of arg (headed) and
\* the file made of the lines of arg alone (bare)
Load ==
    /\ ret.status = "pending"
    /\ ret' = [status |-> "loaded",
               headed |-> read_csv_with_headers(
                              InputFile(PathA, <<CanonicalHeader>> \o arg)),
               bare |-> read_csv_with_headers(InputFile(PathA, arg))]
    /\ UNCHANGED <<orchVars, arg>>

NextLoader == Load

SpecLoader == InitLoader /\ [][NextLoader]_vars

\* C7 as stated: for any sequence of data rows, the file with the canonical
\* header line before the rows loads to the same table as the file of the
\* rows alone.
C7_HeaderInvariant ==
    ret.status = "loaded" => ret.headed = ret.bare

\* the table the rows of arg make: one row per line, in order, under the
\* three canonical names, an empty field missing
ExpectedTable ==
    [i \in 1..Len(arg) |->
        [Name |-> IF arg[i][1] = "" THEN Missing ELSE arg[i][1],
         Timestamp |-> IF arg[i][2] = "" THEN Missing ELSE arg[i][2],
         Price |-> IF arg[i][3] = "" THEN Missing ELSE arg[i][3]]]

\* C7 amended: for any non-empty sequence of data rows whose first row is
\* not itself the text Name,Timestamp,Price, both files load to the same
\* table: the rows, in order, under the three canonical names.
C7_HeaderInvariantAmended ==
    (ret.status = "loaded" /\ arg # <<>> /\ arg[1] # CanonicalHeader) =>
        /\ ret.headed = ret.bare
        /\ ret.headed.status = "ok"
        /\ ret.headed.rows = ExpectedTable

\* two data rows were loaded both ways
C7_Witness ==
    /\ ret.status = "loaded"
    /\ Len(arg) = 2
    /\ arg[1] = <<"A", "t", "1">>
    /\ ret.bare.status = "ok"
    /\ Len(ret.bare.rows) = 2

=============================================================================
